---- MODULE Spec2Model ----
(***************************************************************************)
(* Model of gcrt's result pipeline, GetCerts in src/app/structs.go:        *)
(*   fetch -> decode loop -> removeDuplicateCerts -> date filter -> print  *)
(* Text that the code inspects character by character (name_value,         *)
(* not_before, the --between flag) is a sequence of one-character strings. *)
(* A CertResponse is carried as [id, nameValue, notBefore]; its other six  *)
(* fields are never read by the pipeline and are left out.                 *)
(***************************************************************************)
EXTENDS Integers, Sequences, FiniteSets, TLC

VARIABLES between, days, count,   \* the flag globals
          body, pos,              \* the response stream and the decoder's position in it
          certs,                  \* the slice the decode loop accumulates
          dedupedCerts,           \* the value of removeDuplicateCerts(certs)
          outputCerts,            \* the slice left by the date filter
          now,                    \* time.Now() as read by the days branch
          stdout, stderr, exitCode, pc

vars == <<between, days, count, body, pos, certs, dedupedCerts, outputCerts,
          now, stdout, stderr, exitCode, pc>>

(***************************************************************************)
(* Bounds of the model.                                                    *)
(***************************************************************************)
MaxChunks == 2

MaxLen == 4

MaxBody == 3

(***************************************************************************)
(* Characters and numbers.                                                 *)
(***************************************************************************)
Digits == <<"0", "1", "2", "3", "4", "5", "6", "7", "8", "9">>

isDigit(s, i) == i <= Len(s) /\ s[i] \in {Digits[k] : k \in 1..10}

DigitVal(c) == (CHOOSE k \in 1..10 : Digits[k] = c) - 1

RECURSIVE atoi(_)
atoi(s) == IF s = <<>> THEN 0
           ELSE atoi(SubSeq(s, 1, Len(s) - 1)) * 10 + DigitVal(s[Len(s)])

AllDigits(s) == \A i \in 1..Len(s) : isDigit(s, i)

RECURSIVE Pow10(_)
Pow10(n) == IF n = 0 THEN 1 ELSE 10 * Pow10(n - 1)

\* strconv.Itoa / the %d verb, on a TLA+ string
RECURSIVE ItoaNat(_)
ItoaNat(n) == IF n < 10 THEN Digits[n + 1]
              ELSE ItoaNat(n \div 10) \o Digits[(n % 10) + 1]

Itoa(n) == IF n < 0 THEN "-" \o ItoaNat(0 - n) ELSE ItoaNat(n)

(***************************************************************************)
(* The time package as the pipeline uses it.  A time.Time is an instant:   *)
(* [day, sec, nsec], the days since 0001-01-01 UTC, the second of that day *)
(* (0..86399) and the nanosecond (the int64 second count of Go, split so   *)
(* that no number leaves 32 bits).                                         *)
(***************************************************************************)
isLeap(y) == y % 4 = 0 /\ (y % 100 # 0 \/ y % 400 = 0)

daysBefore == <<0, 31, 59, 90, 120, 151, 181, 212, 243, 273, 304, 334, 365>>

daysIn(m, y) == IF m = 2 /\ isLeap(y) THEN 29 ELSE daysBefore[m + 1] - daysBefore[m]

\* days from 0001-01-01 to y-m-d; d may lie outside the month, as time.Date
\* normalises it (AddDate passes day-N)
daysSinceEpoch(y, m, d) ==
    LET py == y - 1 IN
    365 * py + (py \div 4) - (py \div 100) + (py \div 400)
      + daysBefore[m] + (IF m > 2 /\ isLeap(y) THEN 1 ELSE 0) + (d - 1)

\* time.Date(y, m, d, h, mi, s, ns, loc) for a zone offset seconds east of UTC
Instant(day, sec, ns) ==
    [day |-> day + (sec \div 86400), sec |-> sec % 86400, nsec |-> ns]

Date(y, m, d, h, mi, s, ns, offset) ==
    Instant(daysSinceEpoch(y, m, d), h * 3600 + mi * 60 + s - offset, ns)

After(t, u) ==
    \/ t.day > u.day
    \/ t.day = u.day /\ t.sec > u.sec
    \/ t.day = u.day /\ t.sec = u.sec /\ t.nsec > u.nsec

Before(t, u) ==
    \/ t.day < u.day
    \/ t.day = u.day /\ t.sec < u.sec
    \/ t.day = u.day /\ t.sec = u.sec /\ t.nsec < u.nsec

Add(t, seconds) == Instant(t.day, t.sec + seconds, t.nsec)

ParseFail == [ok |-> FALSE, y |-> 0, m |-> 0, d |-> 0, h |-> 0, mi |-> 0, s |-> 0, ns |-> 0]

\* time.Parse("2006-01-02", v): four-digit year, two-digit month and day,
\* nothing after, month and day in range
ParseDate(v) ==
    IF /\ Len(v) = 10
       /\ \A i \in {1, 2, 3, 4, 6, 7, 9, 10} : isDigit(v, i)
       /\ v[5] = "-" /\ v[8] = "-"
    THEN LET y == atoi(SubSeq(v, 1, 4))
             m == atoi(SubSeq(v, 6, 7))
             d == atoi(SubSeq(v, 9, 10))
         IN IF m \in 1..12 /\ d >= 1 /\ d <= daysIn(m, y)
            THEN [ok |-> TRUE, y |-> y, m |-> m, d |-> d, h |-> 0, mi |-> 0, s |-> 0, ns |-> 0]
            ELSE ParseFail
    ELSE ParseFail

\* time.Parse("2006-01-02T15:04:05", v).  The hour ("15") takes one or two
\* digits; a fractional second after the seconds field is read although the
\* layout has none; anything else left over is an error.
ParseDateTime(v) ==
    IF /\ Len(v) >= 12
       /\ \A i \in {1, 2, 3, 4, 6, 7, 9, 10, 12} : isDigit(v, i)
       /\ v[5] = "-" /\ v[8] = "-" /\ v[11] = "T"
    THEN LET p    == IF isDigit(v, 13) THEN 13 ELSE 12
             rest == SubSeq(v, p + 7, Len(v))
             frac == SubSeq(rest, 2, Len(rest))
         IN IF /\ Len(v) >= p + 6
               /\ v[p + 1] = ":" /\ isDigit(v, p + 2) /\ isDigit(v, p + 3)
               /\ v[p + 4] = ":" /\ isDigit(v, p + 5) /\ isDigit(v, p + 6)
               /\ \/ rest = <<>>
                  \/ Len(rest) >= 2 /\ rest[1] \in {".", ","} /\ AllDigits(frac)
            THEN LET y  == atoi(SubSeq(v, 1, 4))
                     m  == atoi(SubSeq(v, 6, 7))
                     d  == atoi(SubSeq(v, 9, 10))
                     h  == atoi(SubSeq(v, 12, p))
                     mi == atoi(SubSeq(v, p + 2, p + 3))
                     s  == atoi(SubSeq(v, p + 5, p + 6))
                     fl == IF Len(frac) > 9 THEN 9 ELSE Len(frac)
                     ns == IF rest = <<>> THEN 0
                           ELSE atoi(SubSeq(frac, 1, fl)) * Pow10(9 - fl)
                 IN IF /\ m \in 1..12 /\ d >= 1 /\ d <= daysIn(m, y)
                       /\ h < 24 /\ mi < 60 /\ s < 60
                    THEN [ok |-> TRUE, y |-> y, m |-> m, d |-> d,
                          h |-> h, mi |-> mi, s |-> s, ns |-> ns]
                    ELSE ParseFail
            ELSE ParseFail
    ELSE ParseFail

\* the time.Time a successful parse returns (UTC: the layouts carry no zone)
TimeOf(p) == Date(p.y, p.m, p.d, p.h, p.mi, p.s, p.ns, 0)

(***************************************************************************)
(* reSubMatchMap with the pattern of GetCerts,                             *)
(*   (?P<startdate>\d{4}-\d{2}-\d{2}):(?P<enddate>\d{4}-\d{2}-\d{2})       *)
(* The pattern is not anchored: FindStringSubmatch returns the leftmost    *)
(* match anywhere in the text, or nil.                                     *)
(***************************************************************************)
IsDateShape(text, i) ==
    /\ \A k \in {0, 1, 2, 3, 5, 6, 8, 9} : isDigit(text, i + k)
    /\ i + 7 <= Len(text) /\ text[i + 4] = "-" /\ text[i + 7] = "-"

MatchesAt(text, i) ==
    /\ i + 20 <= Len(text)
    /\ IsDateShape(text, i) /\ text[i + 10] = ":" /\ IsDateShape(text, i + 11)

\* <<whole match, group 1, group 2>>, or <<>> for nil
FindStringSubmatch(text) ==
    LET starts == {i \in 1..Len(text) : MatchesAt(text, i)} IN
    IF starts = {} THEN <<>>
    ELSE LET i == CHOOSE a \in starts : \A b \in starts : a <= b
         IN <<SubSeq(text, i, i + 20), SubSeq(text, i, i + 9), SubSeq(text, i + 11, i + 20)>>

SubexpNames == <<"", "startdate", "enddate">>

\* Go index i is TLA+ index i + 1 in both SubexpNames and match
reSubMatchMap(text) ==
    LET match == FindStringSubmatch(text)
        used  == {i \in 0..(Len(SubexpNames) - 1) : i > 0 /\ i <= Len(match)}
    IN [name \in {SubexpNames[i + 1] : i \in used} |->
          match[(CHOOSE i \in used : SubexpNames[i + 1] = name) + 1]]

(***************************************************************************)
(* removeDuplicateCerts: one pass, the map m holds the keys seen, the key  *)
(* of a record is the concatenation NameValue+NotBefore.                   *)
(***************************************************************************)
\* a key that leaves not_before out
DedupKeyNameOnly(c) == c.nameValue

DedupKey(c) == c.nameValue \o c.notBefore

RECURSIVE dedupLoop(_, _, _, _)
dedupLoop(cs, i, m, acc) ==
    IF i > Len(cs) THEN acc
    ELSE IF DedupKey(cs[i]) \notin m
         THEN dedupLoop(cs, i + 1, m \cup {DedupKey(cs[i])}, Append(acc, cs[i]))
         ELSE dedupLoop(cs, i + 1, m, acc)

removeDuplicateCerts(cs) == dedupLoop(cs, 1, {}, <<>>)

(***************************************************************************)
(* The two filter loops of GetCerts.  Each returns the records appended to *)
(* outputCerts and the error lines logged for records that do not parse.   *)
(***************************************************************************)
CertParseError(c) == "error parsing date in cert " \o Itoa(c.id)

\* a range closed at its start
InRangeFromStart(certDate, startDate, endDate) ==
    ~Before(certDate, startDate) /\ Before(certDate, endDate)

InRange(certDate, startDate, endDate) ==
    After(certDate, startDate) /\ Before(certDate, endDate)

RECURSIVE rangeLoop(_, _, _, _, _)
rangeLoop(cs, i, startDate, endDate, acc) ==
    IF i > Len(cs) THEN acc
    ELSE LET c == cs[i]
             p == ParseDateTime(c.notBefore)
         IN IF ~p.ok
            THEN rangeLoop(cs, i + 1, startDate, endDate,
                           [acc EXCEPT !.log = Append(@, CertParseError(c))])
            ELSE IF InRange(TimeOf(p), startDate, endDate)
                 THEN rangeLoop(cs, i + 1, startDate, endDate,
                                [acc EXCEPT !.out = Append(@, c)])
                 ELSE rangeLoop(cs, i + 1, startDate, endDate, acc)

\* now.Year(), now.Month(), now.Day() at midnight in now.Location(), N days back
ThresholdDate(t, n) == Date(t.y, t.m, t.d - n, 0, 0, 0, 0, t.offset)

\* the certificate's date at midnight in now.Location()
CertMidnight(p, t) == Date(p.y, p.m, p.d, 0, 0, 0, 0, t.offset)

\* a threshold that is itself left out
StrictlyAfter(certDate, thresholdDate) == After(certDate, thresholdDate)

OnOrAfter(certDate, thresholdDate) ==
    thresholdDate = certDate \/ After(certDate, thresholdDate)

RECURSIVE daysLoop(_, _, _, _, _)
daysLoop(cs, i, t, n, acc) ==
    IF i > Len(cs) THEN acc
    ELSE LET c == cs[i]
             p == ParseDateTime(c.notBefore)
         IN IF ~p.ok
            THEN daysLoop(cs, i + 1, t, n, [acc EXCEPT !.log = Append(@, CertParseError(c))])
            ELSE IF OnOrAfter(CertMidnight(p, t), ThresholdDate(t, n))
                 THEN daysLoop(cs, i + 1, t, n, [acc EXCEPT !.out = Append(@, c)])
                 ELSE daysLoop(cs, i + 1, t, n, acc)

NoOutput == [out |-> <<>>, log |-> <<>>]

(***************************************************************************)
(* Output.                                                                 *)
(***************************************************************************)
CountLine(n) == "Number of certs found: " \o Itoa(n) \o "\n"

\* CertResponse.MarshalJSON: the record with crt_sh_link added
MarshalJSON(c) ==
    [crt_sh_link |-> "https://crt.sh/?id=" \o Itoa(c.id),
     id |-> c.id, nameValue |-> c.nameValue, notBefore |-> c.notBefore]

MarshalIndent(cs) == [i \in 1..Len(cs) |-> MarshalJSON(cs[i])]

\* a threshold of one record
PrintsJSONFromOne(cs) == Len(cs) > 0

PrintsJSON(cs) == Len(cs) > 1

(***************************************************************************)
(* Inputs: the records the service may return, the chunks of a response    *)
(* body, the flag values and the clock readings the runs are drawn from.   *)
(***************************************************************************)
D2(n) == <<Digits[(n \div 10) + 1], Digits[(n % 10) + 1]>>

D4(n) == D2(n \div 100) \o D2(n % 100)

Day(y, m, d) == D4(y) \o <<"-">> \o D2(m) \o <<"-">> \o D2(d)

Stamp(y, m, d, h, mi, s) ==
    Day(y, m, d) \o <<"T">> \o D2(h) \o <<":">> \o D2(mi) \o <<":">> \o D2(s)

Cert(id, name, notBefore) == [id |-> id, nameValue |-> name, notBefore |-> notBefore]

Leaf      == Cert(1, <<"a">>, Stamp(2021, 6, 15, 0, 0, 0))
Precert   == Cert(2, <<"a">>, Stamp(2021, 6, 15, 0, 0, 0))
LastSec   == Cert(3, <<"b">>, Stamp(2021, 6, 30, 23, 59, 59))
NextDay   == Cert(4, <<"b">>, Stamp(2021, 7, 1, 0, 0, 0))
\* another name and another not_before than Leaf, the same concatenation
Shifted   == Cert(5, <<"a", "2">>, Tail(Stamp(2021, 6, 15, 0, 0, 0)))
FirstSec  == Cert(6, <<"c">>, Stamp(2021, 6, 1, 0, 0, 0))
Fraction  == Cert(7, <<"c">>, Stamp(2021, 6, 30, 23, 59, 58) \o <<".", "5">>)
WeekAgo   == Cert(8, <<"d">>, Stamp(2024, 1, 3, 0, 0, 0))
EightAgo  == Cert(9, <<"d">>, Stamp(2024, 1, 2, 23, 59, 59))
\* a one-digit hour
OldYear   == Cert(10, <<"e">>, Day(2023, 12, 31) \o <<"T", "7", ":", "3", "0", ":", "0", "0">>)
BadMonth  == Cert(11, <<"e">>, Stamp(2021, 13, 15, 0, 0, 0))

Arrays == {<<>>,
           <<Leaf, Precert>>,
           <<Shifted, BadMonth>>,
           <<LastSec, NextDay>>,
           <<FirstSec, Fraction>>,
           <<WeekAgo, EightAgo, OldYear>>}

\* what one dec.Decode call meets in the stream: a JSON array, or text that
\* does not decode into []CertResponse
BadChunk == [ok |-> FALSE, elems |-> <<>>]

Chunks == {[ok |-> TRUE, elems |-> a] : a \in Arrays} \cup {BadChunk}

Bodies == UNION {[1..n -> Chunks] : n \in 0..MaxChunks}

June == Day(2021, 6, 1) \o <<":">> \o Day(2021, 6, 30)

Betweens == {<<>>,
             June,
             <<"x">> \o June \o <<"y">>,
             Day(2021, 6, 1) \o <<":">>,
             Day(2021, 13, 1) \o <<":">> \o Day(2021, 6, 30),
             Day(2021, 6, 1) \o <<":">> \o Day(2021, 2, 30)}

DaysValues == {0 - 1, 0, 7}

Clocks == {[y |-> 2024, m |-> 1, d |-> 10, offset |-> 0],
           [y |-> 2024, m |-> 1, d |-> 10, offset |-> 0 - 18000],
           [y |-> 2024, m |-> 1, d |-> 7, offset |-> 3600]}

NoClock == [y |-> 0, m |-> 0, d |-> 0, offset |-> 0]

(***************************************************************************)
(* The run.                                                                *)
(***************************************************************************)
Init ==
    /\ between \in Betweens
    /\ days \in DaysValues
    /\ count \in BOOLEAN
    /\ body = <<>> /\ pos = 1
    /\ certs = <<>> /\ dedupedCerts = <<>> /\ outputCerts = <<>>
    /\ now = NoClock
    /\ stdout = <<>> /\ stderr = <<>>
    /\ exitCode = 0 - 1
    /\ pc = "fetch"

\* log.Fatal: the message goes to stderr and the process exits with status 1
Fatal(msg) ==
    /\ stderr' = Append(stderr, msg)
    /\ exitCode' = 1
    /\ pc' = "exit"

\* client.Get succeeds: the decoder is set on the response body
FetchOK ==
    /\ pc = "fetch"
    /\ body' \in Bodies
    /\ pc' = "decode"
    /\ UNCHANGED <<between, days, count, pos, certs, dedupedCerts, outputCerts,
                   now, stdout, stderr, exitCode>>

\* client.Get fails after its retries
FetchFail ==
    /\ pc = "fetch"
    /\ Fatal("Error Getting Response")
    /\ UNCHANGED <<between, days, count, body, pos, certs, dedupedCerts,
                   outputCerts, now, stdout>>

\* a loop that ends at the end of the stream only
DecodeErrAtEOF == pos > Len(body)

\* whether the next dec.Decode(&c) returns an error: end of stream, or a
\* chunk that does not decode
DecodeErr == IF pos > Len(body) THEN TRUE ELSE ~body[pos].ok

\* one iteration of the decode loop that appends
DecodeAppend ==
    /\ pc = "decode"
    /\ ~DecodeErr
    /\ certs' = certs \o body[pos].elems
    /\ pos' = pos + 1
    /\ UNCHANGED <<between, days, count, body, dedupedCerts, outputCerts,
                   now, stdout, stderr, exitCode, pc>>

\* the iteration that breaks
DecodeBreak ==
    /\ pc = "decode"
    /\ DecodeErr
    /\ pc' = "dedupe"
    /\ UNCHANGED <<between, days, count, body, pos, certs, dedupedCerts,
                   outputCerts, now, stdout, stderr, exitCode>>

Dedupe ==
    /\ pc = "dedupe"
    /\ dedupedCerts' = removeDuplicateCerts(certs)
    /\ pc' = "filter"
    /\ UNCHANGED <<between, days, count, body, pos, certs, outputCerts,
                   now, stdout, stderr, exitCode>>

UseBetween == Len(between) > 0

\* a days branch that takes 0 as a threshold
UseDaysFromZero == days >= 0

UseDays == days > 0

\* the end date moved to its last second
EndOfDay(endDate) == Add(endDate, 23 * 3600 + 59 * 60 + 59)

\* the branch len(between) > 0
FilterBetween ==
    /\ pc = "filter"
    /\ UseBetween
    /\ LET bDates == reSubMatchMap(between) IN
       IF "startdate" \notin DOMAIN bDates
       THEN Fatal("start date not provided in valid format") /\ UNCHANGED outputCerts
       ELSE IF ~ParseDate(bDates["startdate"]).ok
       THEN Fatal("Error parsing start date") /\ UNCHANGED outputCerts
       ELSE IF "enddate" \notin DOMAIN bDates
       THEN Fatal("end date not provided in valid format") /\ UNCHANGED outputCerts
       ELSE IF ~ParseDate(bDates["enddate"]).ok
       THEN Fatal("Error parsing end date") /\ UNCHANGED outputCerts
       ELSE LET startDate == TimeOf(ParseDate(bDates["startdate"]))
                endDate   == EndOfDay(TimeOf(ParseDate(bDates["enddate"])))
                r         == rangeLoop(dedupedCerts, 1, startDate, endDate, NoOutput)
            IN /\ outputCerts' = r.out
               /\ stderr' = stderr \o r.log
               /\ pc' = "print"
               /\ UNCHANGED exitCode
    /\ UNCHANGED <<between, days, count, body, pos, certs, dedupedCerts, now, stdout>>

\* the branch days > 0
FilterDays ==
    /\ pc = "filter"
    /\ ~UseBetween /\ UseDays
    /\ \E t \in Clocks :
         LET r == daysLoop(dedupedCerts, 1, t, days, NoOutput) IN
         /\ now' = t
         /\ outputCerts' = r.out
         /\ stderr' = stderr \o r.log
    /\ pc' = "print"
    /\ UNCHANGED <<between, days, count, body, pos, certs, dedupedCerts,
                   stdout, exitCode>>

\* the else branch
FilterNone ==
    /\ pc = "filter"
    /\ ~UseBetween /\ ~UseDays
    /\ outputCerts' = dedupedCerts
    /\ pc' = "print"
    /\ UNCHANGED <<between, days, count, body, pos, certs, dedupedCerts,
                   now, stdout, stderr, exitCode>>

\* a count taken before deduplication and filtering
CountedDecoded == Len(certs)

\* the number the count line reports
Counted == Len(outputCerts)

PrintCount ==
    /\ pc = "print"
    /\ count
    /\ stdout' = Append(stdout, [kind |-> "line", text |-> CountLine(Counted), json |-> <<>>])
    /\ exitCode' = 0
    /\ pc' = "exit"
    /\ UNCHANGED <<between, days, count, body, pos, certs, dedupedCerts,
                   outputCerts, now, stderr>>

PrintCerts ==
    /\ pc = "print"
    /\ ~count
    /\ stdout' = IF PrintsJSON(outputCerts)
                 THEN Append(stdout, [kind |-> "json", text |-> "",
                                      json |-> MarshalIndent(outputCerts)])
                 ELSE stdout
    /\ exitCode' = 0
    /\ pc' = "exit"
    /\ UNCHANGED <<between, days, count, body, pos, certs, dedupedCerts,
                   outputCerts, now, stderr>>

Next ==
    \/ FetchOK
    \/ FetchFail
    \/ DecodeAppend
    \/ DecodeBreak
    \/ Dedupe
    \/ FilterBetween
    \/ FilterDays
    \/ FilterNone
    \/ PrintCount
    \/ PrintCerts

Spec == Init /\ [][Next]_vars

(***************************************************************************)
(* removeDuplicateCerts alone, applied to every record sequence of up to   *)
(* MaxLen records: the run stands after a decode loop that read them as    *)
(* one array.                                                              *)
(***************************************************************************)
DedupPool == {Leaf, Precert, Shifted, LastSec, NextDay}

InitDedup ==
    /\ between = <<>> /\ days = 0 - 1 /\ count = FALSE
    /\ certs \in UNION {[1..n -> DedupPool] : n \in 0..MaxLen}
    /\ body = <<[ok |-> TRUE, elems |-> certs]>> /\ pos = 2
    /\ dedupedCerts = <<>> /\ outputCerts = <<>>
    /\ now = NoClock
    /\ stdout = <<>> /\ stderr = <<>>
    /\ exitCode = 0 - 1
    /\ pc = "dedupe"

NextDedup == Dedupe

SpecDedup == InitDedup /\ [][NextDedup]_vars

(***************************************************************************)
(* The decode loop alone, on every stream of up to MaxBody chunks: the run *)
(* stands where client.Get has returned the response.                      *)
(***************************************************************************)
InitDecode ==
    /\ between = <<>> /\ days = 0 - 1 /\ count = FALSE
    /\ body \in UNION {[1..n -> Chunks] : n \in 0..MaxBody} /\ pos = 1
    /\ certs = <<>> /\ dedupedCerts = <<>> /\ outputCerts = <<>>
    /\ now = NoClock
    /\ stdout = <<>> /\ stderr = <<>>
    /\ exitCode = 0 - 1
    /\ pc = "decode"

NextDecode ==
    \/ DecodeAppend
    \/ DecodeBreak

SpecDecode == InitDecode /\ [][NextDecode]_vars

(***************************************************************************)
(* Vocabulary of the properties.                                           *)
(***************************************************************************)
FetchFailed == stderr = <<"Error Getting Response">>

DecodeDone == pc \in {"dedupe", "filter", "print"} \/ (pc = "exit" /\ ~FetchFailed)

DedupeDone == pc \in {"filter", "print"} \/ (pc = "exit" /\ ~FetchFailed)

FilterDone == pc = "print" \/ (pc = "exit" /\ exitCode = 0)

Returned == pc = "exit" /\ exitCode = 0

Indexes(q) == 1..Len(q)

Pair(c) == <<c.nameValue, c.notBefore>>

\* the calendar, stated by month
MonthLength(y, m) ==
    CASE m \in {1, 3, 5, 7, 8, 10, 12} -> 31
      [] m \in {4, 6, 9, 11} -> 30
      [] OTHER -> IF (y % 4 = 0 /\ y % 100 # 0) \/ y % 400 = 0 THEN 29 ELSE 28

\* a before b, for tuples of numbers of one length
RECURSIVE LexLess(_, _)
LexLess(a, b) ==
    IF a = <<>> THEN FALSE
    ELSE Head(a) < Head(b) \/ (Head(a) = Head(b) /\ LexLess(Tail(a), Tail(b)))

Fields(p) == <<p.y, p.m, p.d, p.h, p.mi, p.s, p.ns>>

\* ten characters YYYY-MM-DD naming a day of the calendar
IsCalendarDay(t) ==
    /\ Len(t) = 10
    /\ \A i \in {1, 2, 3, 4, 6, 7, 9, 10} : isDigit(t, i)
    /\ t[5] = "-" /\ t[8] = "-"
    /\ atoi(SubSeq(t, 6, 7)) \in 1..12
    /\ atoi(SubSeq(t, 9, 10)) \in 1..MonthLength(atoi(SubSeq(t, 1, 4)), atoi(SubSeq(t, 6, 7)))

YMD(t) == <<atoi(SubSeq(t, 1, 4)), atoi(SubSeq(t, 6, 7)), atoi(SubSeq(t, 9, 10))>>

\* exactly start-date:end-date, both calendar days
IsRange(b) ==
    /\ Len(b) = 21 /\ b[11] = ":"
    /\ IsCalendarDay(SubSeq(b, 1, 10)) /\ IsCalendarDay(SubSeq(b, 12, 21))

\* strictly after the start day's 00:00:00 and strictly before the end day's 23:59:59
PassesRange(c, b) ==
    LET p == ParseDateTime(c.notBefore) IN
    /\ p.ok
    /\ LexLess(YMD(SubSeq(b, 1, 10)) \o <<0, 0, 0, 0>>, Fields(p))
    /\ LexLess(Fields(p), YMD(SubSeq(b, 12, 21)) \o <<23, 59, 59, 0>>)

PreviousDay(t) ==
    IF t[3] > 1 THEN <<t[1], t[2], t[3] - 1>>
    ELSE IF t[2] > 1 THEN <<t[1], t[2] - 1, MonthLength(t[1], t[2] - 1)>>
    ELSE <<t[1] - 1, 12, 31>>

RECURSIVE DaysBack(_, _)
DaysBack(t, n) == IF n = 0 THEN t ELSE DaysBack(PreviousDay(t), n - 1)

\* the calendar date of not_before is on or after today's date minus n days
PassesDays(c, t, n) ==
    LET p == ParseDateTime(c.notBefore) IN
    /\ p.ok
    /\ ~LexLess(<<p.y, p.m, p.d>>, DaysBack(<<t.y, t.m, t.d>>, n))

Unparsed(c) == ~ParseDateTime(c.notBefore).ok

InOutput(c) == \E k \in Indexes(outputCerts) : outputCerts[k] = c

(***************************************************************************)
(* Deduplication.                                                          *)
(***************************************************************************)
\* the positions of certs whose key NameValue+NotBefore no earlier position has
FirstOccurrences ==
    {i \in Indexes(certs) :
       \A j \in 1..(i - 1) : certs[j].nameValue \o certs[j].notBefore
                               # certs[i].nameValue \o certs[i].notBefore}

\* the k-th smallest position of FirstOccurrences
NthFirst(k) ==
    CHOOSE i \in FirstOccurrences : Cardinality({j \in FirstOccurrences : j < i}) = k - 1

\* C1: removeDuplicateCerts returns exactly the first occurrence of every
\* key, in input order: the output is no longer than the input, no two
\* output records have the same (nameValue, notBefore), and the k-th output
\* record is the input record at the k-th position that is the first of its
\* key (the key being the concatenation of nameValue and notBefore).
C1_FirstOccurrencesKept ==
    DedupeDone =>
      /\ Len(dedupedCerts) <= Len(certs)
      /\ Len(dedupedCerts) = Cardinality(FirstOccurrences)
      /\ \A k \in Indexes(dedupedCerts) : dedupedCerts[k] = certs[NthFirst(k)]
      /\ \A k, l \in Indexes(dedupedCerts) :
           k # l => Pair(dedupedCerts[k]) # Pair(dedupedCerts[l])

\* a later duplicate was dropped from between two kept records
C1_Witness ==
    /\ DedupeDone
    /\ Len(dedupedCerts) >= 2
    /\ \E i, j, l \in Indexes(certs) :
         /\ i < j /\ j < l
         /\ Pair(certs[i]) = Pair(certs[j]) /\ certs[i] # certs[j]
         /\ Pair(certs[l]) # Pair(certs[i])
         /\ dedupedCerts = <<certs[i], certs[l]>>

\* C10: a record is dropped only if an earlier record has the same
\* nameValue and the same notBefore: every record that is the first with
\* its (nameValue, notBefore) pair is in the output.
C10_DroppedOnlyForEqualPair ==
    DedupeDone =>
      \A j \in Indexes(certs) :
        (\A i \in 1..(j - 1) : Pair(certs[i]) # Pair(certs[j]))
          => \E k \in Indexes(dedupedCerts) : dedupedCerts[k] = certs[j]

(***************************************************************************)
(* The date-range filter.                                                  *)
(***************************************************************************)
\* C2: for the range 2021-06-01:2021-06-30 a record with notBefore
\* 2021-06-15T00:00:00 is in the output, one with 2021-07-01T00:00:00 is
\* not, and one with exactly 2021-06-30T23:59:59 is in the output.
C2_EndDateInclusive ==
    (FilterDone /\ between = June) =>
      \A i \in Indexes(dedupedCerts) :
        LET c == dedupedCerts[i] IN
        /\ c.notBefore = Stamp(2021, 6, 15, 0, 0, 0) => InOutput(c)
        /\ c.notBefore = Stamp(2021, 7, 1, 0, 0, 0) => ~InOutput(c)
        /\ c.notBefore = Stamp(2021, 6, 30, 23, 59, 59) => InOutput(c)

\* the error lines of the records of q that do not parse, in order
ParseErrorsOf(q) ==
    LET bad == SelectSeq(q, Unparsed) IN
    [k \in Indexes(bad) |-> "error parsing date in cert " \o Itoa(bad[k].id)]

\* C3: with between exactly S:E, both calendar days, the output is the
\* deduplicated records whose notBefore parses and lies strictly after S
\* 00:00:00 and strictly before E 23:59:59, in order; a record that does not
\* parse is left out with an error line naming its id, and the run goes on.
C3_RangeFilter ==
    (DedupeDone /\ IsRange(between)) =>
      /\ pc # "filter" => FilterDone
      /\ FilterDone =>
           LET Passes(c) == PassesRange(c, between) IN
           /\ outputCerts = SelectSeq(dedupedCerts, Passes)
           /\ stderr = ParseErrorsOf(dedupedCerts)

\* a record that does not parse stands before one that passes, and a record
\* that parses is filtered out
C3_Witness ==
    /\ Returned /\ IsRange(between)
    /\ \E i, j, l \in Indexes(dedupedCerts) :
         /\ i < j
         /\ Unparsed(dedupedCerts[i])
         /\ InOutput(dedupedCerts[j])
         /\ ~Unparsed(dedupedCerts[l]) /\ ~InOutput(dedupedCerts[l])

(***************************************************************************)
(* The days-threshold filter.                                              *)
(***************************************************************************)
\* C4: with between empty and days = N > 0, the output is the deduplicated
\* records whose notBefore parses and whose calendar date, time of day
\* discarded, is on or after today's local date minus N days, in order;
\* with N = 7 and today 2024-01-10, 2024-01-03T00:00:00 passes and
\* 2024-01-02T23:59:59 does not.  A record that does not parse is left out
\* with an error line naming its id, and the run goes on.
C4_DaysFilter ==
    (DedupeDone /\ between = <<>> /\ days > 0) =>
      /\ pc # "filter" => FilterDone
      /\ FilterDone =>
           LET Passes(c) == PassesDays(c, now, days) IN
           /\ outputCerts = SelectSeq(dedupedCerts, Passes)
           /\ stderr = ParseErrorsOf(dedupedCerts)
           /\ (days = 7 /\ now.y = 2024 /\ now.m = 1 /\ now.d = 10) =>
                \A i \in Indexes(dedupedCerts) :
                  LET c == dedupedCerts[i] IN
                  /\ c.notBefore = Stamp(2024, 1, 3, 0, 0, 0) => InOutput(c)
                  /\ c.notBefore = Stamp(2024, 1, 2, 23, 59, 59) => ~InOutput(c)

\* the clock is off UTC, a record dated exactly N days back passed, a record
\* of the last second of the day before did not, and a record that does not
\* parse was skipped
C4_Witness ==
    /\ Returned /\ between = <<>> /\ days = 7
    /\ now.y = 2024 /\ now.m = 1 /\ now.d = 10 /\ now.offset # 0
    /\ \E i, j, l \in Indexes(dedupedCerts) :
         /\ dedupedCerts[i].notBefore = Stamp(2024, 1, 3, 0, 0, 0)
         /\ InOutput(dedupedCerts[i])
         /\ dedupedCerts[j].notBefore = Stamp(2024, 1, 2, 23, 59, 59)
         /\ ~InOutput(dedupedCerts[j])
         /\ Unparsed(dedupedCerts[l])

(***************************************************************************)
(* The choice of the filter.                                               *)
(***************************************************************************)
\* C5: one filter is applied per run.  A non-empty between selects the
\* date-range filter whatever days is (the clock is not read); otherwise
\* days > 0 selects the days-threshold filter; otherwise, days = 0
\* included, the output is the deduplicated sequence unchanged and nothing
\* is logged.
C5_OneFilterMode ==
    FilterDone =>
      /\ between # <<>> =>
           /\ now = NoClock
           /\ \E i \in Indexes(between) :
                LET b == SubSeq(between, i, i + 20)
                    Passes(c) == PassesRange(c, b)
                IN IsRange(b) /\ outputCerts = SelectSeq(dedupedCerts, Passes)
      /\ (between = <<>> /\ days > 0) =>
           LET Passes(c) == PassesDays(c, now, days) IN
           now \in Clocks /\ outputCerts = SelectSeq(dedupedCerts, Passes)
      /\ (between = <<>> /\ days <= 0) =>
           /\ now = NoClock
           /\ outputCerts = dedupedCerts
           /\ stderr = <<>>

\* days is 0 and between is empty: records went through, one of them with a
\* notBefore that does not parse
C5_Witness ==
    /\ Returned /\ between = <<>> /\ days = 0
    /\ Len(outputCerts) >= 2
    /\ \E k \in Indexes(outputCerts) : Unparsed(outputCerts[k])

(***************************************************************************)
(* Output.                                                                 *)
(***************************************************************************)
Decimal == <<"0", "1", "2", "3", "4", "5", "6", "7", "8", "9", "10", "11", "12">>

\* C6: with count set, a run that returns has written exactly the line
\* "Number of certs found: n", n the number of records left after
\* deduplication and filtering, and no JSON.
C6_CountLine ==
    (Returned /\ count) =>
      /\ Len(outputCerts) < Len(Decimal)
      /\ stdout = <<[kind |-> "line",
                     text |-> "Number of certs found: "
                                \o Decimal[Len(outputCerts) + 1] \o "\n",
                     json |-> <<>>]>>

\* fewer records were counted than deduplicated, fewer deduplicated than decoded
C6_Witness ==
    /\ Returned /\ count
    /\ Len(outputCerts) >= 1
    /\ Len(outputCerts) < Len(dedupedCerts)
    /\ Len(dedupedCerts) < Len(certs)
    /\ Len(stdout) = 1

\* C7: with count not set, a run that returns has written the JSON array
\* of the surviving records if and only if at least two survived; with one
\* or none it has written nothing.
C7_JSONFromTwoRecords ==
    (Returned /\ ~count) =>
      IF Len(outputCerts) >= 2
      THEN /\ Len(stdout) = 1
           /\ stdout[1].kind = "json"
           /\ Len(stdout[1].json) = Len(outputCerts)
           /\ \A k \in Indexes(outputCerts) :
                /\ stdout[1].json[k].id = outputCerts[k].id
                /\ stdout[1].json[k].nameValue = outputCerts[k].nameValue
                /\ stdout[1].json[k].notBefore = outputCerts[k].notBefore
      ELSE stdout = <<>>

\* exactly one record survived and nothing was written
C7_Witness ==
    /\ Returned /\ ~count
    /\ Len(outputCerts) = 1
    /\ stdout = <<>>

(***************************************************************************)
(* Decoding.                                                               *)
(***************************************************************************)
\* the position of the first chunk that fails to decode, or one past the end
FirstFailure ==
    IF \E i \in Indexes(body) : ~body[i].ok
    THEN CHOOSE i \in Indexes(body) : ~body[i].ok /\ \A j \in 1..(i - 1) : body[j].ok
    ELSE Len(body) + 1

RECURSIVE Flatten(_)
Flatten(chunks) ==
    IF chunks = <<>> THEN <<>> ELSE Head(chunks).elems \o Flatten(Tail(chunks))

\* what the decode loop owes once it has ended
DecodeResult ==
    /\ pos = FirstFailure
    /\ certs = Flatten(SubSeq(body, 1, FirstFailure - 1))
    /\ ~(pc = "dedupe" /\ exitCode = 1)

\* C8: the decode loop ends, and when it has ended certs is the
\* concatenation, in stream order, of the arrays before the first chunk that
\* fails to decode (or of all of them); the failure is not fatal and nothing
\* after it is added.  While the loop runs it can always take its next
\* iteration, it has read exactly the arrays before pos, and pos has not
\* passed the first failure, so it ends within FirstFailure iterations.
C8_DecodeUntilFirstFailure ==
    /\ pc = "decode" =>
         /\ ENABLED (DecodeAppend \/ DecodeBreak)
         /\ pos <= FirstFailure
         /\ certs = Flatten(SubSeq(body, 1, pos - 1))
    /\ DecodeDone => DecodeResult

\* arrays were read, then a chunk failed, and an array after it was not read
C8_Witness ==
    /\ pc = "dedupe"
    /\ Len(certs) >= 3
    /\ FirstFailure = 2
    /\ Len(body) > 2 /\ body[3].ok /\ body[3].elems # <<>>

\* C9: with between non-empty and not of the form start-date:end-date, both
\* calendar days, the run ends in a fatal error with exit status 1 and with
\* nothing written to standard output.
C9_MalformedBetweenFatal ==
    (between # <<>> /\ ~IsRange(between) /\ pc \in {"print", "exit"} /\ ~FetchFailed) =>
      (pc = "exit" /\ exitCode = 1 /\ stdout = <<>>)

====
